---- MODULE Spec2Model ----
(***************************************************************************)
(* OpenAPIMCP (server/mcp_server_stream.py): an OpenAPI document is        *)
(* turned into one handler closure per operation, each handler is handed   *)
(* to the FastMCP tool host, and every tool call is proxied as one HTTP    *)
(* request.                                                                *)
(*                                                                         *)
(* Python str values are sequences of one-character strings, so that       *)
(* str.replace, str.lower and str.upper are computed character by          *)
(* character.  A dict read from the document is a record whose optional    *)
(* keys may be absent; a dict whose iteration order matters (paths, path   *)
(* items) is a sequence of <<key, value>> pairs with distinct keys.        *)
(***************************************************************************)
EXTENDS Bags, FiniteSets, Integers, Sequences, TLC

VARIABLES pc, base_url_arg, spec, base_url, handlers, mcp, inflight, returned

vars == <<pc, base_url_arg, spec, base_url, handlers, mcp, inflight, returned>>

(* Bounds of the model. *)
MaxPaths == 1
MaxInv == 2

(***************************************************************************)
(* Python built-ins                                                        *)
(***************************************************************************)
EmptyDict == <<>>

Get(d, k, default) == IF k \in DOMAIN d THEN d[k] ELSE default

UpperChars ==
    << "A", "B", "C", "D", "E", "F", "G", "H", "I", "J", "K", "L", "M",
       "N", "O", "P", "Q", "R", "S", "T", "U", "V", "W", "X", "Y", "Z" >>
LowerChars ==
    << "a", "b", "c", "d", "e", "f", "g", "h", "i", "j", "k", "l", "m",
       "n", "o", "p", "q", "r", "s", "t", "u", "v", "w", "x", "y", "z" >>

LowerChar(c) ==
    IF \E i \in 1..Len(UpperChars) : UpperChars[i] = c
    THEN LowerChars[CHOOSE i \in 1..Len(UpperChars) : UpperChars[i] = c]
    ELSE c

UpperChar(c) ==
    IF \E i \in 1..Len(LowerChars) : LowerChars[i] = c
    THEN UpperChars[CHOOSE i \in 1..Len(LowerChars) : LowerChars[i] = c]
    ELSE c

Lower(s) == [i \in 1..Len(s) |-> LowerChar(s[i])]
Upper(s) == [i \in 1..Len(s) |-> UpperChar(s[i])]

(* s.replace(old, new) for a non-empty old: leftmost non-overlapping
   occurrences, scanned once from the left. *)
RECURSIVE Replace(_, _, _)
Replace(s, old, new) ==
    IF Len(s) < Len(old) THEN s
    ELSE IF SubSeq(s, 1, Len(old)) = old
         THEN new \o Replace(SubSeq(s, Len(old) + 1, Len(s)), old, new)
         ELSE <<Head(s)>> \o Replace(Tail(s), old, new)

(* old in s *)
Contains(s, old) ==
    \E i \in 1..(Len(s) - Len(old) + 1) : SubSeq(s, i, i + Len(old) - 1) = old

Digits == <<"0", "1", "2", "3", "4", "5", "6", "7", "8", "9">>

RECURSIVE IntToStr(_)
IntToStr(n) ==
    IF n < 10 THEN <<Digits[n + 1]>>
    ELSE IntToStr(n \div 10) \o <<Digits[(n % 10) + 1]>>

(* Argument values: an int or a str. *)
PyInt(n) == [t |-> "int", i |-> n, s |-> <<>>]
PyStr(str) == [t |-> "str", i |-> 0, s |-> str]

(* str(v) of an argument value: an int prints its decimal digits, a str is
   itself. *)
Str(v) == IF v.t = "int" THEN IntToStr(v.i) ELSE v.s

(***************************************************************************)
(* Documents the loader can return                                         *)
(***************************************************************************)
A == <<"a">>
B == <<"b">>
N == <<"n">>

JSON == "application/json"
XML == "application/xml"

OpGetItem ==
    [parameters |-> << [name |-> A, in |-> "path", required |-> TRUE],
                       [name |-> B, in |-> "query",
                        schema |-> [type |-> "integer"]],
                       [name |-> N, in |-> "header"] >>]

OpPutItem ==
    [operationId |-> <<"u", "p", "d">>,
     parameters |-> << [name |-> A, in |-> "path", required |-> TRUE],
                       [name |-> B, in |-> "query"] >>,
     requestBody |->
        [content |-> (JSON :>
            [schema |-> [properties |-> (N :> [type |-> "integer"])
                                        @@ (B :> EmptyDict),
                         required |-> {N}]])]]

OpAdd ==
    [operationId |-> <<"a", "d", "d">>,
     requestBody |->
        [content |-> (JSON :>
            [schema |-> [properties |-> (N :> EmptyDict)]])]]

OpXml ==
    [parameters |-> << [name |-> A, in |-> "path"],
                       [name |-> B, in |-> "path"] >>,
     requestBody |-> [content |-> (XML :> EmptyDict)]]

OpNoIn ==
    [parameters |-> << [name |-> A] >>]

(* The entries of the document's paths mapping: path -> path item, a path
   item being method key -> operation. *)
PathEntries ==
    { << <<"/", "i", "/", "{", "a", "}">>,
         << << <<"g", "e", "t">>, OpGetItem >>,
            << <<"P", "U", "T">>, OpPutItem >> >> >>,
      << <<"/", "{", "a", "}", "/", "{", "a", "}">>,
         << << <<"p", "a", "r", "a", "m", "e", "t", "e", "r", "s">>,
               EmptyDict >>,
            << <<"p", "u", "t">>, OpPutItem >> >> >>,
      << <<"/", "x", "/", "{", "a", "}", "/", "{", "b", "}">>,
         << << <<"p", "a", "t", "c", "h">>, OpXml >>,
            << <<"p", "o", "s", "t">>, OpAdd >> >> >>,
      << <<"/", "d", "/", "{", "a", "}">>,
         << << <<"d", "e", "l", "e", "t", "e">>, OpNoIn >> >> >> }

ServerUrl == <<"s">>
OverrideUrl == <<"o">>

(* The values of the document's servers key; the first element says whether
   the key is present. *)
ServersValues ==
    { <<FALSE, <<>> >>,
      <<TRUE, <<>> >>,
      <<TRUE, <<EmptyDict>> >>,
      <<TRUE, <<[url |-> ServerUrl]>> >> }

PathsValues ==
    { ps \in UNION { [1..n -> PathEntries] : n \in 0..MaxPaths } :
        \A i, j \in 1..Len(ps) : i # j => ps[i][1] # ps[j][1] }

Documents ==
    { (IF sv[1] THEN [servers |-> sv[2]] ELSE EmptyDict)
        @@ (IF ps # <<>> THEN [paths |-> ps] ELSE EmptyDict) :
      sv \in ServersValues, ps \in PathsValues }

(* base_url: None, "" or a url *)
BaseUrlArgs ==
    { [none |-> TRUE, v |-> <<>>],
      [none |-> FALSE, v |-> <<>>],
      [none |-> FALSE, v |-> OverrideUrl] }

(***************************************************************************)
(* __init__ and tool creation                                              *)
(***************************************************************************)
METHODS == { <<"g", "e", "t">>, <<"p", "o", "s", "t">>, <<"p", "u", "t">>,
             <<"d", "e", "l", "e", "t", "e">>, <<"p", "a", "t", "c", "h">> }

(* The function name the def statement gives the closure. *)
DefName == <<"a", "p", "i", "_", "c", "a", "l", "l">>

(* base_url or ... *)
Truthy(arg) == ~arg.none /\ arg.v # <<>>

(* self.spec.get('servers', [{}])[0] raises IndexError on an empty list *)
ServersIndexError(doc) == Get(doc, "servers", <<EmptyDict>>) = <<>>

BaseUrl(arg, doc) ==
    IF Truthy(arg) THEN arg.v
    ELSE Get(Get(doc, "servers", <<EmptyDict>>)[1], "url", <<>>)

(* The (path, method, operation) triples in the iteration order of the two
   loops of _create_tools, before the method filter. *)
RECURSIVE ItemEntries(_, _)
ItemEntries(path, item) ==
    IF item = <<>> THEN <<>>
    ELSE << <<path, Head(item)[1], Head(item)[2]>> >>
         \o ItemEntries(path, Tail(item))

RECURSIVE Entries(_)
Entries(paths) ==
    IF paths = <<>> THEN <<>>
    ELSE ItemEntries(Head(paths)[1], Head(paths)[2]) \o Entries(Tail(paths))

OperationId(path, method, operation) ==
    Get(operation, "operationId",
        method \o <<"_">> \o Replace(path, <<"/">>, <<"_">>))

ParamNames(parameters) == { parameters[i].name : i \in 1..Len(parameters) }

(* The last declared parameter of a name wins the dict entry. *)
LastIndex(parameters, name) ==
    CHOOSE i \in 1..Len(parameters) :
        /\ parameters[i].name = name
        /\ \A j \in (i + 1)..Len(parameters) : parameters[j].name # name

ParamSchema(parameters, request_body) ==
    LET fromParams ==
            [name \in ParamNames(parameters) |->
                LET param == parameters[LastIndex(parameters, name)]
                IN [type |-> Get(Get(param, "schema", EmptyDict),
                                 "type", "string"),
                    description |-> Get(param, "description", <<>>),
                    required |-> Get(param, "required", FALSE)]]
        content == Get(request_body, "content", EmptyDict)
        schema == IF DOMAIN request_body # {} /\ JSON \in DOMAIN content
                  THEN Get(content[JSON], "schema", EmptyDict)
                  ELSE EmptyDict
        props == Get(schema, "properties", EmptyDict)
        fromBody ==
            [name \in DOMAIN props |->
                [type |-> Get(props[name], "type", "string"),
                 description |-> Get(props[name], "description", <<>>),
                 required |-> name \in Get(schema, "required", {})]]
    IN fromBody @@ fromParams

(* FastMCP.tool()(fn): the host files the function under the name it has at
   that moment and keeps an existing tool of the same name. *)
Register(host, fn, ref) ==
    IF fn.name \in DOMAIN host THEN host
    ELSE host @@ (fn.name :> [fn |-> ref])

(* st = [handlers, mcp]: the closures made so far and the host's tools. *)
_create_tool(st, path, method, operation) ==
    LET operation_id == OperationId(path, method, operation)
        parameters == Get(operation, "parameters", <<>>)
        request_body == Get(operation, "requestBody", EmptyDict)
        api_call == [name |-> DefName,
                     path |-> path,
                     method |-> method,
                     parameters |-> parameters,
                     request_body |-> request_body,
                     param_schema |-> ParamSchema(parameters, request_body)]
        ref == Len(st.handlers) + 1
    IN [mcp |-> Register(st.mcp, api_call, ref),
        handlers |-> Append(st.handlers,
                            [api_call EXCEPT !.name = operation_id])]

RECURSIVE CreateFrom(_, _)
CreateFrom(st, entries) ==
    IF entries = <<>> THEN st
    ELSE LET e == Head(entries)
         IN CreateFrom(IF Lower(e[2]) \in METHODS
                       THEN _create_tool(st, e[1], e[2], e[3])
                       ELSE st,
                       Tail(entries))

_create_tools(doc) ==
    CreateFrom([handlers |-> <<>>, mcp |-> EmptyDict],
               Entries(Get(doc, "paths", <<>>)))

Init ==
    /\ pc = "init"
    /\ base_url_arg \in BaseUrlArgs
    /\ spec \in Documents
    /\ base_url = base_url_arg
    /\ handlers = <<>>
    /\ mcp = EmptyDict
    /\ inflight = EmptyBag
    /\ returned = [kind |-> "none"]

__init__ ==
    /\ pc = "init"
    /\ IF ~Truthy(base_url_arg) /\ ServersIndexError(spec)
       THEN /\ pc' = "failed"
            /\ UNCHANGED <<base_url, handlers, mcp>>
       ELSE /\ pc' = "serving"
            /\ base_url' = [none |-> FALSE, v |-> BaseUrl(base_url_arg, spec)]
            /\ handlers' = _create_tools(spec).handlers
            /\ mcp' = _create_tools(spec).mcp
    /\ UNCHANGED <<base_url_arg, spec, inflight, returned>>

(***************************************************************************)
(* api_call                                                                *)
(***************************************************************************)
ArgNames == {A, B, N}

ArgValues(name) ==
    IF name = B THEN { PyStr(<<"{", "a", "}">>) } ELSE { PyInt(4) }

(* The keyword arguments of one call. *)
ArgMaps ==
    UNION { { kw \in [names -> UNION { ArgValues(n) : n \in names }] :
                \A n \in names : kw[n] \in ArgValues(n) } :
            names \in SUBSET ArgNames }

ErrorMarker == "Error making API call: "

(* What the transport hands back: an exception raised by client.request, or
   a response with a status and a body that is JSON or not. *)
Statuses == {200, 302, 500}
Bodies == { [valid |-> TRUE, value |-> "J1"], [valid |-> FALSE, value |-> ""] }

Responses ==
    { [exc |-> TRUE, status |-> 0, body |-> [valid |-> FALSE, value |-> ""]] }
    \cup { [exc |-> FALSE, status |-> s, body |-> b] :
           s \in Statuses, b \in Bodies }

Placeholder(name) == <<"{">> \o name \o <<"}">>

(* param['in'] raises KeyError for a parameter without the key. *)
InKeyError(parameters) ==
    \E i \in 1..Len(parameters) : "in" \notin DOMAIN parameters[i]

(* PathSubstitute testing the location against 'query'. *)
RECURSIVE PathSubstituteQuery(_, _, _)
PathSubstituteQuery(url, parameters, kwargs) ==
    IF parameters = <<>> THEN url
    ELSE LET param == Head(parameters)
         IN PathSubstituteQuery(
                IF param.in = "query" /\ param.name \in DOMAIN kwargs
                THEN Replace(url, Placeholder(param.name),
                             Str(kwargs[param.name]))
                ELSE url,
                Tail(parameters), kwargs)

RECURSIVE PathSubstitute(_, _, _)
PathSubstitute(url, parameters, kwargs) ==
    IF parameters = <<>> THEN url
    ELSE LET param == Head(parameters)
         IN PathSubstitute(
                IF param.in = "path" /\ param.name \in DOMAIN kwargs
                THEN Replace(url, Placeholder(param.name),
                             Str(kwargs[param.name]))
                ELSE url,
                Tail(parameters), kwargs)

QueryParams(parameters, kwargs) ==
    [name \in { parameters[i].name : i \in
                  { j \in 1..Len(parameters) :
                      /\ parameters[j].in = "query"
                      /\ parameters[j].name \in DOMAIN kwargs } } |->
        kwargs[name]]

DeclaresJson(request_body) ==
    /\ DOMAIN request_body # {}
    /\ JSON \in DOMAIN Get(request_body, "content", EmptyDict)

(* BodyData without the `k not in params` filter. *)
BodyDataUnfiltered(request_body, kwargs, params) ==
    IF DeclaresJson(request_body) THEN kwargs ELSE EmptyDict

BodyData(request_body, kwargs, params) ==
    IF DeclaresJson(request_body)
    THEN [k \in DOMAIN kwargs \ DOMAIN params |-> kwargs[k]]
    ELSE EmptyDict

(* raise_for_status raising for 4xx and 5xx only. *)
RaiseForStatusErrorsOnly(status) == status >= 400

(* response.raise_for_status() raises for every status outside 2xx. *)
RaiseForStatus(status) == status \notin 200..299

(* The value api_call returns for what the transport handed back. *)
Result(resp) ==
    IF resp.exc
    THEN [kind |-> "text", text |-> <<ErrorMarker, "RequestError">>,
          value |-> ""]
    ELSE IF RaiseForStatus(resp.status)
    THEN [kind |-> "text", text |-> <<ErrorMarker, "HTTPStatusError">>,
          value |-> ""]
    ELSE IF ~resp.body.valid
    THEN [kind |-> "text", text |-> <<ErrorMarker, "JSONDecodeError">>,
          value |-> ""]
    ELSE [kind |-> "json", text |-> <<>>, value |-> resp.body.value]

(* The call of client.request that api_call builds from its closure and its
   own keyword arguments. *)
Request(fn, base, kwargs) ==
    LET url == PathSubstitute(base.v \o fn.path, fn.parameters, kwargs)
        params == QueryParams(fn.parameters, kwargs)
        data == BodyData(fn.request_body, kwargs, params)
    IN [method |-> Upper(fn.method),
        url |-> url,
        params |-> params,
        data |-> data,
        json |-> DOMAIN data # {},
        headers |-> [ContentType |-> JSON]]

(* api_call rejecting a call that omits a parameter marked required. *)
api_call_begin_enforcing(tool, kwargs, clientOk) ==
    /\ pc = "serving"
    /\ BagCardinality(inflight) < MaxInv
    /\ LET fn == handlers[mcp[tool].fn]
       IN IF \E n \in DOMAIN fn.param_schema :
                fn.param_schema[n].required /\ n \notin DOMAIN kwargs
          THEN /\ returned' = [kind |-> "returned", tool |-> tool,
                               sent |-> FALSE,
                               response |-> [exc |-> TRUE, status |-> 0,
                                             body |-> [valid |-> FALSE,
                                                       value |-> ""]],
                               result |-> [kind |-> "text",
                                           text |-> <<ErrorMarker,
                                                      "MissingArgument">>,
                                           value |-> ""]]
               /\ UNCHANGED inflight
          ELSE IF InKeyError(fn.parameters)
          THEN /\ returned' = [kind |-> "raised", tool |-> tool,
                               exc |-> "KeyError", sent |-> FALSE]
               /\ UNCHANGED inflight
          ELSE IF ~clientOk
          THEN /\ returned' = [kind |-> "raised", tool |-> tool,
                               exc |-> "ClientError", sent |-> FALSE]
               /\ UNCHANGED inflight
          ELSE /\ inflight' = inflight (+) SetToBag({
                       [tool |-> tool, fn |-> mcp[tool].fn, kwargs |-> kwargs,
                        request |-> Request(fn, base_url, kwargs)] })
               /\ UNCHANGED returned
    /\ UNCHANGED <<pc, base_url_arg, spec, base_url, handlers, mcp>>

(* api_call_end storing the request url in self.base_url. *)
api_call_end_writing(call, resp) ==
    /\ pc = "serving"
    /\ BagIn(call, inflight)
    /\ inflight' = inflight (-) SetToBag({call})
    /\ returned' = [kind |-> "returned", tool |-> call.tool, sent |-> TRUE,
                    response |-> resp, result |-> Result(resp)]
    /\ base_url' = [none |-> FALSE, v |-> call.request.url]
    /\ UNCHANGED <<pc, base_url_arg, spec, handlers, mcp>>

(* The host calls the tool `tool` with kwargs; api_call runs up to its first
   suspension, the await of client.request.  clientOk: httpx.AsyncClient()
   could be created. *)
api_call_begin(tool, kwargs, clientOk) ==
    /\ pc = "serving"
    /\ BagCardinality(inflight) < MaxInv
    /\ LET fn == handlers[mcp[tool].fn]
       IN IF InKeyError(fn.parameters)
          THEN /\ returned' = [kind |-> "raised", tool |-> tool,
                               exc |-> "KeyError", sent |-> FALSE]
               /\ UNCHANGED inflight
          ELSE IF ~clientOk
          THEN /\ returned' = [kind |-> "raised", tool |-> tool,
                               exc |-> "ClientError", sent |-> FALSE]
               /\ UNCHANGED inflight
          ELSE /\ inflight' = inflight (+) SetToBag({
                       [tool |-> tool, fn |-> mcp[tool].fn, kwargs |-> kwargs,
                        request |-> Request(fn, base_url, kwargs)] })
               /\ UNCHANGED returned
    /\ UNCHANGED <<pc, base_url_arg, spec, base_url, handlers, mcp>>

(* The awaited request of `call` completes with resp and api_call returns. *)
api_call_end(call, resp) ==
    /\ pc = "serving"
    /\ BagIn(call, inflight)
    /\ inflight' = inflight (-) SetToBag({call})
    /\ returned' = [kind |-> "returned", tool |-> call.tool, sent |-> TRUE,
                    response |-> resp, result |-> Result(resp)]
    /\ UNCHANGED <<pc, base_url_arg, spec, base_url, handlers, mcp>>

Next ==
    \/ __init__
    \/ \E tool \in DOMAIN mcp, kwargs \in ArgMaps, clientOk \in BOOLEAN :
          api_call_begin(tool, kwargs, clientOk)
    \/ \E call \in BagToSet(inflight), resp \in Responses :
          api_call_end(call, resp)

Spec == Init /\ [][Next]_vars

(***************************************************************************)
(* Properties                                                              *)
(***************************************************************************)
Calls == BagToSet(inflight)

FnOf(call) == handlers[call.fn]

(* The operations of the document that _create_tools recognizes, as indices
   into the iteration order. *)
DocEntries == Entries(Get(spec, "paths", <<>>))
Recognized == { i \in 1..Len(DocEntries) : Lower(DocEntries[i][2]) \in METHODS }

PathParams(fn) ==
    { i \in 1..Len(fn.parameters) :
        Get(fn.parameters[i], "in", "") = "path" }

QueryNames(fn) ==
    { fn.parameters[i].name : i \in
        { j \in 1..Len(fn.parameters) :
            Get(fn.parameters[j], "in", "") = "query" } }

HasBrace(s) == \E i \in 1..Len(s) : s[i] \in {"{", "}"}

(* Every brace of s delimits a placeholder: braces alternate, opening
   first and closing last. *)
RECURSIVE BracesDelimit(_, _)
BracesDelimit(s, open) ==
    IF s = <<>> THEN ~open
    ELSE IF Head(s) = "{" THEN ~open /\ BracesDelimit(Tail(s), TRUE)
    ELSE IF Head(s) = "}" THEN open /\ BracesDelimit(Tail(s), FALSE)
    ELSE BracesDelimit(Tail(s), open)

(* C1: after construction the tool host holds exactly one tool per
   recognized (path, method) pair of the document: as many tools as
   recognized operations, a tool for each of them, and no tool for any other
   key. *)
C1_OneToolPerOperation ==
    pc = "serving" =>
        /\ Cardinality(DOMAIN mcp) = Cardinality(Recognized)
        /\ \A i \in Recognized :
              \E t \in DOMAIN mcp :
                  /\ handlers[mcp[t].fn].path = DocEntries[i][1]
                  /\ handlers[mcp[t].fn].method = DocEntries[i][2]
        /\ \A t \in DOMAIN mcp :
              Lower(handlers[mcp[t].fn].method) \in METHODS

(* C2: the name under which the tool host records a handler is the
   operation's operationId when present, otherwise "{method}_{path}" with
   every '/' replaced by '_'. *)
C2_RegisteredUnderDerivedName ==
    \A t \in DOMAIN mcp :
        LET fn == handlers[mcp[t].fn]
            i == CHOOSE j \in Recognized :
                    /\ DocEntries[j][1] = fn.path
                    /\ DocEntries[j][2] = fn.method
        IN t = OperationId(fn.path, fn.method, DocEntries[i][3])

(* C3: a call of a tool handler never raises to the tool host; whatever
   fails, it returns a value. *)
C3_NeverRaises == returned.kind # "raised"

(* C4: for a response with a status outside 2xx the handler returns a text
   that begins with the error marker and not the decoded body; for a 2xx
   response whose body is valid JSON it returns the decoded body. *)
C4_ResultByStatus ==
    (returned.kind = "returned" /\ ~returned.response.exc) =>
        /\ returned.response.status \notin 200..299 =>
              /\ returned.result.kind = "text"
              /\ returned.result.text[1] = ErrorMarker
        /\ (returned.response.status \in 200..299
            /\ returned.response.body.valid) =>
              /\ returned.result.kind = "json"
              /\ returned.result.value = returned.response.body.value

C4_Witness ==
    /\ returned.kind = "returned"
    /\ ~returned.response.exc
    /\ returned.response.status = 302
    /\ returned.response.body.valid
    /\ returned.result.kind = "text"

(* C5: the query set and the body mapping of a request have no key in
   common; the query set is the arguments named by a declared query
   parameter; the body mapping is the arguments not in the query set when
   the operation declares an application/json body, and is empty
   otherwise. *)
C5_QueryBodyPartition ==
    \A call \in Calls :
        LET fn == FnOf(call)
            params == call.request.params
            data == call.request.data
        IN /\ DOMAIN params \cap DOMAIN data = {}
           /\ DOMAIN params = DOMAIN call.kwargs \cap QueryNames(fn)
           /\ \A k \in DOMAIN params : params[k] = call.kwargs[k]
           /\ DeclaresJson(fn.request_body) =>
                 /\ DOMAIN data = DOMAIN call.kwargs \ DOMAIN params
                 /\ \A k \in DOMAIN data : data[k] = call.kwargs[k]
           /\ ~DeclaresJson(fn.request_body) => DOMAIN data = {}

C5_Witness ==
    \E call \in Calls :
        /\ DeclaresJson(FnOf(call).request_body)
        /\ DOMAIN call.request.params # {}
        /\ DOMAIN call.request.data # {}

(* The url before substitution and the two halves of C6 for one call. *)
Template(call) == base_url.v \o FnOf(call).path

SubstitutedGone(call) ==
    \A i \in PathParams(FnOf(call)) :
        LET name == FnOf(call).parameters[i].name
        IN name \in DOMAIN call.kwargs =>
              /\ ~Contains(call.request.url, Placeholder(name))
              /\ Contains(Template(call), Placeholder(name)) =>
                    Contains(call.request.url, Str(call.kwargs[name]))

AbsentKept(call) ==
    \A i \in PathParams(FnOf(call)) :
        LET name == FnOf(call).parameters[i].name
        IN (name \notin DOMAIN call.kwargs
            /\ Contains(Template(call), Placeholder(name))) =>
              Contains(call.request.url, Placeholder(name))

(* C6 as claimed: after path substitution the url holds no placeholder of a
   declared path parameter named in the arguments, each being replaced by
   the string form of its argument, and the placeholder of every declared
   path parameter absent from the arguments is still in the url. *)
C6_NoPlaceholderLeft ==
    \A call \in Calls : SubstitutedGone(call) /\ AbsentKept(call)

Plain(call) ==
    /\ BracesDelimit(Template(call), FALSE)
    /\ \A i \in PathParams(FnOf(call)) :
          LET name == FnOf(call).parameters[i].name
          IN /\ ~HasBrace(name)
             /\ name \in DOMAIN call.kwargs =>
                   ~HasBrace(Str(call.kwargs[name]))

(* C6 as amended: the same, for a call in which no declared path
   parameter's name and no substituted argument's string form contains a
   brace and every brace of the base url and path template delimits a
   placeholder. *)
C6_NoPlaceholderLeftPlain ==
    \A call \in Calls :
        Plain(call) => SubstitutedGone(call) /\ AbsentKept(call)

C6_Witness ==
    \E call \in Calls :
        /\ Plain(call)
        /\ \E i \in PathParams(FnOf(call)) :
              LET name == FnOf(call).parameters[i].name
              IN /\ name \in DOMAIN call.kwargs
                 /\ Contains(Template(call), Placeholder(name))
                 /\ ~Contains(call.request.url, Placeholder(name))

(* C7: construction succeeds and the base url is the override when one is
   configured, else the url of the document's first servers entry when it
   has one, else the empty string. *)
C7_BaseUrlPrecedence ==
    pc # "init" =>
        /\ pc = "serving"
        /\ base_url.v =
              IF Truthy(base_url_arg) THEN base_url_arg.v
              ELSE IF /\ "servers" \in DOMAIN spec
                      /\ spec.servers # <<>>
                      /\ "url" \in DOMAIN spec.servers[1]
                   THEN spec.servers[1].url
                   ELSE <<>>

(* The body properties an operation's application/json schema lists as
   required. *)
RequiredProps(fn) ==
    LET content == Get(fn.request_body, "content", EmptyDict)
        schema == IF JSON \in DOMAIN content
                  THEN Get(content[JSON], "schema", EmptyDict)
                  ELSE EmptyDict
    IN DOMAIN Get(schema, "properties", EmptyDict)
       \cap Get(schema, "required", {})

(* C8: a body property listed as required is marked required in the derived
   parameter schema, and no call is turned away by the handler: a call that
   ends without a request having been issued ended with an exception of
   request construction. *)
C8_RequiredIsAdvisory ==
    /\ \A i \in 1..Len(handlers) :
          \A n \in RequiredProps(handlers[i]) :
              /\ n \in DOMAIN handlers[i].param_schema
              /\ handlers[i].param_schema[n].required
    /\ returned.kind = "returned" => returned.sent
    /\ returned.kind = "raised" => returned.exc \in {"KeyError", "ClientError"}

C8_Witness ==
    \E call \in Calls :
        \E n \in RequiredProps(FnOf(call)) :
            /\ FnOf(call).param_schema[n].required
            /\ n \notin DOMAIN call.kwargs

(* C9: once serving, no step writes the document, the base url, the
   handlers' closures or the registered tools, and the request of every
   call in flight is the one built from its own arguments. *)
C9_ReadOnlyAfterStartup ==
    /\ [][pc = "serving" => UNCHANGED <<spec, base_url, handlers, mcp>>]_vars
    /\ [](\A call \in Calls :
             call.request = Request(FnOf(call), base_url, call.kwargs))

C9_Witness ==
    \E c1, c2 \in Calls :
        /\ c1.kwargs # c2.kwargs
        /\ c1.request # c2.request

(* C10: for an operation that declares an application/json body, an
   argument named by a declared path parameter and substituted into the url
   is not a key of the JSON body mapping. *)
C10_PathArgNotInBody ==
    \A call \in Calls :
        DeclaresJson(FnOf(call).request_body) =>
            \A i \in PathParams(FnOf(call)) :
                LET name == FnOf(call).parameters[i].name
                IN (name \in DOMAIN call.kwargs
                    /\ Contains(Template(call), Placeholder(name))) =>
                      name \notin DOMAIN call.request.data
====
